---- MODULE Spec2Model ----
(***************************************************************************)
(* vnpy_websocket.WebsocketClient: the caller threads, the background      *)
(* threads spawned by start(), the asyncio event loop they drive, the      *)
(* coroutines scheduled onto it (_run, _ws.send_str, _ws.close) and the    *)
(* remote peer.  Texts are tuples of one-character strings.                *)
(***************************************************************************)
EXTENDS Integers, Sequences, FiniteSets, TLC

\* ------------------------------------------------------------------ bounds
\* what the environment does in one run: the calls of start(), stop() and
\* send_packet() the caller threads make plus the frames the peer sends
MaxInputs == 3

\* ------------------------------------------------------- program constants
MaxRecord == 1000   \* text[:1000]

\* a start() call spawns at most one thread
Threads == 1..MaxInputs

\* An optional value is a tuple: None is the empty one, Some(x) holds x.
None == <<>>
Some(x) == <<x>>
\* an attribute the object does not have
Unset == <<>>
NoFault == "none"

\* ------------------------------------------------------------ packet codec
Quote == "\""

\* A packet is a dict of str -> str: a sequence of <<key, value>> pairs in
\* insertion order.
Ping == << << <<"t">>, <<"p">> >> >>
\* a packet whose text is longer than the diagnostics slot
Pong == << << <<"t">>, [i \in 1..MaxRecord |-> "q"] >> >>
Packets == {Ping, Pong}

JsonStr(s) == <<Quote>> \o s \o <<Quote>>

RECURSIVE JsonItems(_)
JsonItems(p) ==
    IF p = <<>> THEN <<>>
    ELSE JsonStr(p[1][1]) \o <<":", " ">> \o JsonStr(p[1][2])
         \o (IF Len(p) > 1 THEN <<",", " ">> \o JsonItems(Tail(p)) ELSE <<>>)

\* json.dumps(packet)
json_dumps(p) == <<"{">> \o JsonItems(p) \o <<"}">>

RECURSIVE SkipWs(_, _)
SkipWs(text, i) ==
    IF i <= Len(text) /\ text[i] = " " THEN SkipWs(text, i + 1) ELSE i

RECURSIVE StrEnd(_, _)
\* index of the closing quote of a string whose body starts at i, 0 if none
StrEnd(text, i) ==
    IF i > Len(text) THEN 0
    ELSE IF text[i] = Quote THEN i
    ELSE StrEnd(text, i + 1)

Bad == [ok |-> FALSE]

\* a JSON string starting at i: [ok, val, next]
ParseStr(text, i) ==
    IF i > Len(text) \/ text[i] # Quote THEN Bad
    ELSE LET e == StrEnd(text, i + 1)
         IN  IF e = 0 THEN Bad
             ELSE [ok |-> TRUE, val |-> SubSeq(text, i + 1, e - 1), next |-> e + 1]

RECURSIVE ParseMembers(_, _, _)
\* the members of an object after "{" or ",": [ok, val, next]
ParseMembers(text, i, acc) ==
    LET k == ParseStr(text, SkipWs(text, i))
    IN  IF ~k.ok THEN Bad
        ELSE LET c == SkipWs(text, k.next)
             IN  IF c > Len(text) \/ text[c] # ":" THEN Bad
                 ELSE LET v == ParseStr(text, SkipWs(text, c + 1))
                      IN  IF ~v.ok THEN Bad
                          ELSE LET n == SkipWs(text, v.next)
                                   acc2 == Append(acc, <<k.val, v.val>>)
                               IN  IF n > Len(text) THEN Bad
                                   ELSE IF text[n] = "}" THEN
                                       [ok |-> TRUE, val |-> acc2, next |-> n + 1]
                                   ELSE IF text[n] = "," THEN
                                       ParseMembers(text, n + 1, acc2)
                                   ELSE Bad

\* json.loads(data) on the fragment of JSON the packets use (an object of
\* string members); anything else raises ValueError (ok = FALSE).
json_loads(text) ==
    LET s == SkipWs(text, 1)
    IN  IF s > Len(text) \/ text[s] # "{" THEN Bad
        ELSE LET m == SkipWs(text, s + 1)
                 r == IF m <= Len(text) /\ text[m] = "}"
                      THEN [ok |-> TRUE, val |-> <<>>, next |-> m + 1]
                      ELSE ParseMembers(text, m, <<>>)
             IN  IF r.ok /\ SkipWs(text, r.next) = Len(text) + 1
                 THEN [ok |-> TRUE, val |-> r.val]
                 ELSE Bad


\* a text that is not JSON and is one character longer than the diagnostics slot
NotJson == <<"n", "o", "t", "-", "j", "s", "o", "n">> \o [i \in 1..MaxRecord - 7 |-> "!"]

\* the text frames the peer may send
InTexts == {json_dumps(Ping), NotJson}

\* json.loads of each text the peer may send, computed once
Decoded == [text \in InTexts |-> json_loads(text)]

\* WebsocketClient.unpack_data
unpack_data(data) == IF data \in InTexts THEN Decoded[data] ELSE json_loads(data)

\* a slice that keeps the last 1000 characters instead of the first
TruncateTail(text) ==
    IF Len(text) <= MaxRecord THEN text
    ELSE SubSeq(text, Len(text) - MaxRecord + 1, Len(text))

\* text[:1000]
Truncate(text) ==
    IF Len(text) <= MaxRecord THEN text ELSE SubSeq(text, 1, MaxRecord)

\* ------------------------------------------------------------------- state
VARIABLES
    host,                   \* self.host
    proxy,                  \* self.proxy (Unset: the attribute does not exist)
    _ws,                    \* self._ws: None or the id of the _run task that owns the socket
    thread,                 \* self.thread: None or a thread id
    _last_sent_text,        \* self._last_sent_text
    _last_received_text,    \* self._last_received_text
    calls,                  \* the calls in progress, each on its caller's thread
    ncalls,                 \* inputs so far: [start, stop, send, frames]
    raised,                 \* serial numbers of the send_packet calls that raised to the caller
    tpc,                    \* each background thread's position in run()
    lphase,                 \* self.loop: "halted", or where run_forever is in its iteration
    driver,                 \* the thread inside run_forever (0: the host's own thread)
    ready,                  \* loop._ready: the callbacks to run, first in first out
    batch,                  \* callbacks left to run in this iteration (ntodo)
    stopping,               \* loop._stopping
    wake,                   \* a byte is waiting in the loop's self-pipe
    tasks,                  \* every coroutine handed to run_coroutine_threadsafe, by id
    callbacks,              \* invocations so far of on_error and on_disconnected
    recorded                \* the texts given so far to _record_last_sent_text and
                            \* _record_last_received_text, whole and in order

vars == <<host, proxy, _ws, thread, _last_sent_text, _last_received_text, calls,
          ncalls, raised, tpc, lphase, driver, ready, batch, stopping, wake,
          tasks, callbacks, recorded>>

client == <<host, proxy, _ws, thread, _last_sent_text, _last_received_text>>
loopv == <<lphase, driver, ready, batch, stopping, wake>>

Host == <<"ws://", "echo.test", "/socket">>
ProxyHosts == {<<>>, <<"127.0.0.1">>}
ProxyPorts == {0, 1080}

\* the environment may act again
CanCall == ncalls.start + ncalls.stop + ncalls.send + ncalls.frames < MaxInputs

\* the number of the next call
NextCall == ncalls.start + ncalls.stop + ncalls.send + 1

\* loop.is_running()
is_running == lphase # "halted"

\* Thread.is_alive()
is_alive(t) == tpc[t] \in {"run", "run_forever", "driving", "schedule"}

\* The coroutine objects.  Beside the coroutine's own position (st, parked,
\* fault) a _run carries its socket (conn, inbox, closed, wire) and what it has
\* done so far: the messages its loop has taken (consumed) and the calls of
\* on_connected and on_packet it has made.
\* _run() owns its socket: the handle's id is the task's id
RunCoro ==
    [kind |-> "run", st |-> "created", parked |-> FALSE, fault |-> NoFault,
     conn |-> "none", inbox |-> <<>>, consumed |-> <<>>, closed |-> FALSE,
     wire |-> <<>>, on_connected |-> 0, on_packet |-> <<>>]
SendCoro(h, text, serial) ==
    [kind |-> "send", st |-> "created", fault |-> NoFault, h |-> h, text |-> text,
     serial |-> serial]
CloseCoro(h) ==
    [kind |-> "close", st |-> "created", fault |-> NoFault, h |-> h]

Spawn(id) == [k |-> "spawn", task |-> id]
Step(id) == [k |-> "step", task |-> id]

\* a ready queue that takes the newest handle first
call_soon_lifo(q, handle) == <<handle>> \o q

\* loop.call_soon / the append of call_soon_threadsafe: loop._ready.append(handle)
call_soon(q, handle) == Append(q, handle)

\* asyncio.run_coroutine_threadsafe(coro, self.loop): the callback that will
\* create the task is appended to the ready queue and the self-pipe is written.
\* The loop is never closed, so this never raises, running or not.
run_coroutine_threadsafe(coro) ==
    /\ tasks' = Append(tasks, coro)
    /\ ready' = call_soon(ready, Spawn(Len(tasks) + 1))
    /\ wake' = TRUE

\* ------------------------------------------------------------ construction
\* __init__: the loop is asyncio.get_event_loop(); it is either not running or
\* already being run by the host program's own thread.
Init ==
    /\ host = None
    /\ proxy = Unset
    /\ _ws = None
    /\ thread = None
    /\ _last_sent_text = None
    /\ _last_received_text = None
    /\ calls = {}
    /\ ncalls = [start |-> 0, stop |-> 0, send |-> 0, frames |-> 0]
    /\ raised = {}
    /\ tpc = [t \in Threads |-> "unborn"]
    /\ lphase \in {"halted", "top"}
    /\ driver = 0
    /\ ready = <<>>
    /\ batch = 0
    /\ stopping = FALSE
    /\ wake = FALSE
    /\ tasks = <<>>
    /\ callbacks = [on_error |-> 0, on_disconnected |-> 0]
    /\ recorded = [sent |-> <<>>, received |-> <<>>]

\* ------------------------------------------------------------- the callers
\* init(host, proxy_host, proxy_port), called once and before start()
init(proxy_host, proxy_port) ==
    /\ host = None
    /\ ncalls.start = 0
    /\ host' = Host
    /\ proxy' = IF proxy_host # <<>> /\ proxy_port # 0
                THEN <<"http://", proxy_host, ":", proxy_port>>
                ELSE proxy
    /\ UNCHANGED <<_ws, thread, _last_sent_text, _last_received_text, calls,
                   ncalls, raised, tpc, loopv, tasks, callbacks, recorded>>

\* a start() that spawns a thread whether or not the loop is running
start_thread_always ==
    /\ CanCall
    /\ ncalls' = [ncalls EXCEPT !.start = @ + 1]
    /\ LET t == ncalls.start + 1
       IN  /\ thread' = Some(t)
           /\ tpc' = [tpc EXCEPT ![t] = "run"]
           /\ UNCHANGED <<tasks, ready, wake>>
    /\ UNCHANGED <<host, proxy, _ws, _last_sent_text, _last_received_text, calls,
                   raised, lphase, driver, batch, stopping, callbacks, recorded>>

\* start()
start ==
    /\ CanCall
    /\ ncalls' = [ncalls EXCEPT !.start = @ + 1]
    /\ IF ~is_running
       THEN LET t == ncalls.start + 1
            IN  /\ thread' = Some(t)
                /\ tpc' = [tpc EXCEPT ![t] = "run"]
                /\ UNCHANGED <<tasks, ready, wake>>
       ELSE /\ run_coroutine_threadsafe(RunCoro)
            /\ UNCHANGED <<thread, tpc>>
    /\ UNCHANGED <<host, proxy, _ws, _last_sent_text, _last_received_text, calls,
                   raised, lphase, driver, batch, stopping, callbacks, recorded>>

\* a stop() that writes to the loop's self-pipe even when there is no handle
stop_wakes ==
    /\ CanCall
    /\ ncalls' = [ncalls EXCEPT !.stop = @ + 1]
    /\ calls' = calls \cup {[op |-> "stop_loop", n |-> NextCall]}
    /\ IF _ws # None
       THEN run_coroutine_threadsafe(CloseCoro(_ws[1]))
       ELSE wake' = TRUE /\ UNCHANGED <<tasks, ready>>
    /\ UNCHANGED <<client, raised, tpc, lphase, driver, batch, stopping, callbacks, recorded>>

\* stop(), lines 104-106
stop ==
    /\ CanCall
    /\ ncalls' = [ncalls EXCEPT !.stop = @ + 1]
    /\ calls' = calls \cup {[op |-> "stop_loop", n |-> NextCall]}
    /\ IF _ws # None
       THEN run_coroutine_threadsafe(CloseCoro(_ws[1]))
       ELSE UNCHANGED <<tasks, ready, wake>>
    /\ UNCHANGED <<client, raised, tpc, lphase, driver, batch, stopping, callbacks, recorded>>

\* stop(), lines 108-109: loop.stop() sets the flag and wakes nobody
stop_loop(call) ==
    /\ call.op = "stop_loop"
    /\ calls' = calls \ {call}
    /\ stopping' = IF is_running THEN TRUE ELSE stopping
    /\ UNCHANGED <<client, ncalls, raised, tpc, lphase, driver, ready, batch,
                   wake, tasks, callbacks, recorded>>

\* join(): blocks while self.thread is alive, returns at once otherwise
join ==
    /\ IF thread # None /\ is_alive(thread[1])
       THEN calls' = calls \cup {[op |-> "join", t |-> thread[1]]}
       ELSE UNCHANGED calls
    /\ UNCHANGED <<client, ncalls, raised, tpc, loopv, tasks, callbacks, recorded>>

\* a join that returns without waiting for the thread
join_return_early(call) ==
    /\ call.op = "join"
    /\ calls' = calls \ {call}
    /\ UNCHANGED <<client, ncalls, raised, tpc, loopv, tasks, callbacks, recorded>>

\* join(), line 116: self.thread.join() returns when the thread has exited
join_return(call) ==
    /\ call.op = "join"
    /\ ~is_alive(call.t)
    /\ calls' = calls \ {call}
    /\ UNCHANGED <<client, ncalls, raised, tpc, loopv, tasks, callbacks, recorded>>

\* a send_packet that goes on to the write without recording the text
send_packet_unrecorded(packet) ==
    /\ CanCall
    /\ ncalls' = [ncalls EXCEPT !.send = @ + 1]
    /\ LET text == json_dumps(packet)
       IN  calls' = calls \cup
                  {[op |-> "send_str", text |-> text, serial |-> ncalls.send + 1]}
    /\ UNCHANGED <<client, raised, tpc, loopv, tasks, callbacks, recorded>>

\* send_packet(packet), lines 124-125
send_packet(packet) ==
    /\ CanCall
    /\ ncalls' = [ncalls EXCEPT !.send = @ + 1]
    /\ LET text == json_dumps(packet)
       IN  /\ _last_sent_text' = Some(Truncate(text))
           /\ recorded' = [recorded EXCEPT !.sent = Append(@, text)]
           /\ calls' = calls \cup
                  {[op |-> "send_str", text |-> text, serial |-> ncalls.send + 1]}
    /\ UNCHANGED <<host, proxy, _ws, thread, _last_received_text, raised, tpc,
                   loopv, tasks, callbacks>>

\* a send_packet that writes to the socket on its caller's own thread
send_str_direct(call) ==
    /\ call.op = "send_str"
    /\ calls' = calls \ {call}
    /\ IF _ws = None
       THEN /\ raised' = raised \cup {call.serial}
            /\ UNCHANGED tasks
       ELSE /\ tasks' = [tasks EXCEPT ![_ws[1]].wire =
                   Append(@, [serial |-> call.serial, text |-> call.text])]
            /\ UNCHANGED raised
    /\ UNCHANGED <<client, ncalls, tpc, loopv, callbacks, recorded>>

\* a send_packet that returns quietly when there is no handle
send_str_silent(call) ==
    /\ call.op = "send_str"
    /\ calls' = calls \ {call}
    /\ IF _ws = None
       THEN UNCHANGED <<tasks, ready, wake>>
       ELSE run_coroutine_threadsafe(SendCoro(_ws[1], call.text, call.serial))
    /\ UNCHANGED <<client, ncalls, raised, tpc, lphase, driver, batch, stopping,
                   callbacks, recorded>>

\* send_packet(packet), lines 127-129: self._ws.send_str raises AttributeError
\* on None
send_str(call) ==
    /\ call.op = "send_str"
    /\ calls' = calls \ {call}
    /\ IF _ws = None
       THEN /\ raised' = raised \cup {call.serial}
            /\ UNCHANGED <<tasks, ready, wake>>
       ELSE /\ run_coroutine_threadsafe(SendCoro(_ws[1], call.text, call.serial))
            /\ UNCHANGED raised
    /\ UNCHANGED <<client, ncalls, tpc, lphase, driver, batch, stopping, callbacks, recorded>>

\* ------------------------------------------------- the background threads
\* run(), line 141
run(t) ==
    /\ tpc[t] = "run"
    /\ tpc' = [tpc EXCEPT ![t] = IF ~is_running THEN "run_forever" ELSE "schedule"]
    /\ UNCHANGED <<client, calls, ncalls, raised, loopv, tasks, callbacks, recorded>>

\* run(), lines 142-143: run_forever raises RuntimeError when the loop is
\* already running, which ends the thread; otherwise this thread drives it
run_forever(t) ==
    /\ tpc[t] = "run_forever"
    /\ IF is_running
       THEN /\ tpc' = [tpc EXCEPT ![t] = "raised"]
            /\ UNCHANGED <<lphase, driver>>
       ELSE /\ tpc' = [tpc EXCEPT ![t] = "driving"]
            /\ lphase' = "top"
            /\ driver' = t
    /\ UNCHANGED <<client, calls, ncalls, raised, ready, batch, stopping, wake,
                   tasks, callbacks, recorded>>

\* run(), line 145: reached once run_forever has returned
schedule(t) ==
    /\ tpc[t] = "schedule"
    /\ tpc' = [tpc EXCEPT ![t] = "done"]
    /\ run_coroutine_threadsafe(RunCoro)
    /\ UNCHANGED <<client, calls, ncalls, raised, lphase, driver, batch, stopping,
                   callbacks, recorded>>

\* ---------------------------------------------------------- the event loop
TaskIds == 1..Len(tasks)
Sessions == {id \in TaskIds : tasks[id].kind = "run"}

\* a suspended _run whose awaited transport event has arrived
io_ready(id) ==
    /\ tasks[id].kind = "run"
    /\ tasks[id].parked
    /\ \/ tasks[id].st = "connecting" /\ tasks[id].conn # "pending"
       \/ tasks[id].st = "connected" /\ tasks[id].inbox # <<>>

RECURSIVE resumed(_)
\* the steps of the tasks number i and up that the selector's events resume
resumed(i) ==
    IF i > Len(tasks) THEN <<>>
    ELSE (IF io_ready(i) THEN <<Step(i)>> ELSE <<>>) \o resumed(i + 1)

\* _run_once after select() has returned: the self-pipe is drained, the events'
\* callbacks are added to the ready queue and ntodo = len(self._ready)
process_events ==
    /\ ready' = ready \o resumed(1)
    /\ tasks' = [id \in TaskIds |->
                    IF io_ready(id) THEN [tasks[id] EXCEPT !.parked = FALSE]
                    ELSE tasks[id]]
    /\ wake' = FALSE
    /\ batch' = Len(ready')
    /\ lphase' = "batch"

\* _run_once: the timeout is 0 when callbacks are ready or the loop is
\* stopping, otherwise select() blocks
run_once ==
    /\ lphase = "top"
    /\ IF ready # <<>> \/ stopping
       THEN process_events
       ELSE /\ lphase' = "select"
            /\ UNCHANGED <<ready, tasks, wake, batch>>
    /\ UNCHANGED <<client, calls, ncalls, raised, tpc, driver, stopping, callbacks, recorded>>

\* select() returns: the self-pipe was written or a socket has an event
select_return ==
    /\ lphase = "select"
    /\ wake \/ \E id \in TaskIds : io_ready(id)
    /\ process_events
    /\ UNCHANGED <<client, calls, ncalls, raised, tpc, driver, stopping, callbacks, recorded>>

\* the loop thread is about to run the handle at the head of the ready queue
running(k, id) ==
    /\ lphase = "batch"
    /\ batch > 0
    /\ Head(ready) = [k |-> k, task |-> id]

\* the callback of run_coroutine_threadsafe: ensure_future(coro) makes the
\* task, whose first step is call_soon'ed
create_task(id) ==
    /\ running("spawn", id)
    /\ tasks' = [tasks EXCEPT ![id].st = "ready"]
    /\ ready' = call_soon(Tail(ready), Step(id))
    /\ batch' = batch - 1
    /\ UNCHANGED <<client, calls, ncalls, raised, tpc, lphase, driver, stopping,
                   wake, callbacks, recorded>>

\* _run(), lines 151-155, up to the await: reading self.proxy raises
\* AttributeError when init() did not set it
ws_connect(id) ==
    IF proxy = Unset
    THEN [tasks[id] EXCEPT !.st = "failed", !.fault = "AttributeError"]
    ELSE [tasks[id] EXCEPT !.st = "connecting", !.conn = "pending", !.parked = TRUE]

run_begin(id) ==
    /\ running("step", id)
    /\ tasks[id].kind = "run"
    /\ tasks[id].st = "ready"
    /\ tasks' = [tasks EXCEPT ![id] = ws_connect(id)]
    /\ ready' = Tail(ready)
    /\ batch' = batch - 1
    /\ UNCHANGED <<client, calls, ncalls, raised, tpc, lphase, driver, stopping,
                   wake, callbacks, recorded>>

\* a _run that forgets the callback
on_connected_skipped(task) == task

\* self.on_connected()
on_connected(task) == [task EXCEPT !.on_connected = @ + 1]

\* _run(), lines 151-159: ws_connect has raised, or it has returned: the handle
\* is stored, on_connected is called and the task awaits the first frame
run_connected(id) ==
    /\ running("step", id)
    /\ tasks[id].kind = "run"
    /\ tasks[id].st = "connecting"
    /\ IF tasks[id].conn = "open"
       THEN /\ _ws' = Some(id)
            /\ tasks' = [tasks EXCEPT ![id] =
                   [on_connected(tasks[id]) EXCEPT !.st = "connected", !.parked = TRUE]]
       ELSE /\ tasks' = [tasks EXCEPT ![id].st = "failed", ![id].fault = "ConnectError"]
            /\ UNCHANGED _ws
    /\ ready' = Tail(ready)
    /\ batch' = batch - 1
    /\ UNCHANGED <<host, proxy, thread, _last_sent_text, _last_received_text, calls,
                   ncalls, raised, tpc, lphase, driver, stopping, wake, callbacks, recorded>>

\* self.on_packet(data)
on_packet(task, data) == [task EXCEPT !.on_packet = Append(@, data)]

\* a receive loop that skips a frame it cannot decode and goes on
receive_text_skip(task, text) ==
    LET data == unpack_data(text)
    IN  IF data.ok
        THEN [on_packet(task, data.val) EXCEPT !.parked = TRUE]
        ELSE [task EXCEPT !.parked = TRUE]

\* _run(), lines 160-172, for one text frame (its inbox entry already removed)
receive_text(task, text) ==
    LET data == unpack_data(text)
    IN  IF data.ok
        THEN [on_packet(task, data.val) EXCEPT !.parked = TRUE]
        ELSE [task EXCEPT !.st = "failed", !.fault = "ValueError"]

\* _run(), lines 159-172: the next element of `async for msg in self._ws`
run_receive(id) ==
    /\ running("step", id)
    /\ tasks[id].kind = "run"
    /\ tasks[id].st = "connected"
    /\ LET msg == Head(tasks[id].inbox)
           task == [tasks[id] EXCEPT !.inbox = Tail(@), !.consumed = Append(@, msg)]
       IN  CASE msg.type = "text" ->
                 /\ _last_received_text' = Some(Truncate(msg.data))
                 /\ recorded' = [recorded EXCEPT !.received = Append(@, msg.data)]
                 /\ tasks' = [tasks EXCEPT ![id] = receive_text(task, msg.data)]
             [] msg.type \in {"close", "closing"} ->
                 \* the iteration ends and _run returns
                 /\ tasks' = [tasks EXCEPT ![id] =
                        [task EXCEPT !.st = "returned", !.closed = TRUE]]
                 /\ UNCHANGED <<_last_received_text, recorded>>
             [] msg.type = "error" ->
                 \* the transport failed: the handle closes, the fault ends _run
                 /\ tasks' = [tasks EXCEPT ![id] =
                        [task EXCEPT !.st = "failed", !.fault = "TransportError",
                                     !.closed = TRUE]]
                 /\ UNCHANGED <<_last_received_text, recorded>>
    /\ ready' = Tail(ready)
    /\ batch' = batch - 1
    /\ UNCHANGED <<host, proxy, _ws, thread, _last_sent_text, calls, ncalls, raised,
                   tpc, lphase, driver, stopping, wake, callbacks>>

\* the coroutine of self._ws.send_str(text): the write, or ConnectionResetError
\* on a closed handle
send_step(id) ==
    /\ running("step", id)
    /\ tasks[id].kind = "send"
    /\ LET h == tasks[id].h
       IN  IF tasks[h].closed
           THEN tasks' = [tasks EXCEPT ![id].st = "failed",
                                       ![id].fault = "ConnectionResetError"]
           ELSE tasks' = [tasks EXCEPT
                    ![id].st = "returned",
                    ![h].wire = Append(@, [serial |-> tasks[id].serial,
                                           text |-> tasks[id].text])]
    /\ ready' = Tail(ready)
    /\ batch' = batch - 1
    /\ UNCHANGED <<client, calls, ncalls, raised, tpc, lphase, driver, stopping,
                   wake, callbacks, recorded>>

\* the coroutine of self._ws.close(): the handle closes and a receive loop
\* waiting on it is handed the closing message
close_step(id) ==
    /\ running("step", id)
    /\ tasks[id].kind = "close"
    /\ LET h == tasks[id].h
       IN  tasks' = [tasks EXCEPT
               ![id].st = "returned",
               ![h].closed = TRUE,
               ![h].inbox = IF ~tasks[h].closed /\ tasks[h].st = "connected"
                            THEN Append(@, [type |-> "closing"])
                            ELSE @]
    /\ ready' = Tail(ready)
    /\ batch' = batch - 1
    /\ UNCHANGED <<client, calls, ncalls, raised, tpc, lphase, driver, stopping,
                   wake, callbacks, recorded>>

\* run_forever after _run_once: `if self._stopping: break`, and on the way out
\* _stopping = False and the loop is no longer running
end_iteration ==
    /\ lphase = "batch"
    /\ batch = 0
    /\ IF stopping
       THEN /\ lphase' = "halted"
            /\ stopping' = FALSE
            /\ driver' = 0
            /\ tpc' = IF driver \in Threads
                      THEN [tpc EXCEPT ![driver] = "schedule"]
                      ELSE tpc
       ELSE /\ lphase' = "top"
            /\ UNCHANGED <<stopping, driver, tpc>>
    /\ UNCHANGED <<client, calls, ncalls, raised, ready, batch, wake, tasks, callbacks, recorded>>

\* ---------------------------------------------------------------- the peer
peer_accept(h) ==
    /\ tasks[h].kind = "run"
    /\ tasks[h].conn = "pending"
    /\ tasks' = [tasks EXCEPT ![h].conn = "open"]
    /\ UNCHANGED <<client, calls, ncalls, raised, tpc, loopv, callbacks, recorded>>

peer_refuse(h) ==
    /\ tasks[h].kind = "run"
    /\ tasks[h].conn = "pending"
    /\ tasks' = [tasks EXCEPT ![h].conn = "refused"]
    /\ UNCHANGED <<client, calls, ncalls, raised, tpc, loopv, callbacks, recorded>>

Frames ==
    {[type |-> "text", data |-> t] : t \in InTexts}
    \cup {[type |-> "close"], [type |-> "error"]}

\* a frame arrives on an open socket; nothing follows a close or an error
peer_frame(h, msg) ==
    /\ tasks[h].kind = "run"
    /\ tasks[h].conn = "open"
    /\ ~tasks[h].closed
    /\ CanCall
    /\ \A i \in 1..Len(tasks[h].inbox) : tasks[h].inbox[i].type \in {"text", "closing"}
    /\ tasks' = [tasks EXCEPT ![h].inbox = Append(@, msg)]
    /\ ncalls' = [ncalls EXCEPT !.frames = @ + 1]
    /\ UNCHANGED <<client, calls, raised, tpc, loopv, callbacks, recorded>>

\* ------------------------------------------------------------ specification
CallerStep ==
    \/ \E ph \in ProxyHosts, pp \in ProxyPorts : init(ph, pp)
    \/ start
    \/ stop
    \/ join
    \/ \E packet \in Packets : send_packet(packet)

\* a call that has begun goes on: the caller's thread is scheduled
CallerGoesOn ==
    \E call \in calls : stop_loop(call) \/ join_return(call) \/ send_str(call)

ThreadStep ==
    \E t \in Threads : run(t) \/ run_forever(t) \/ schedule(t)

LoopStep ==
    \/ run_once
    \/ select_return
    \/ end_iteration
    \/ \E id \in TaskIds :
        \/ create_task(id)
        \/ run_begin(id)
        \/ run_connected(id)
        \/ run_receive(id)
        \/ send_step(id)
        \/ close_step(id)

PeerStep ==
    \E h \in TaskIds :
        \/ peer_accept(h)
        \/ peer_refuse(h)
        \/ \E msg \in Frames : peer_frame(h, msg)

Next == CallerStep \/ CallerGoesOn \/ ThreadStep \/ LoopStep \/ PeerStep

Spec == Init /\ [][Next]_vars

\* The operating system schedules every thread that can run: the background
\* threads, the thread driving the loop and a caller inside a call.  Nothing
\* obliges the caller to make a call or the peer to answer.
FairSpec ==
    /\ Spec
    /\ WF_vars(ThreadStep)
    /\ WF_vars(LoopStep)
    /\ WF_vars(CallerGoesOn)

\* ------------------------------------------------------------------ claims
SendIds == {id \in TaskIds : tasks[id].kind = "send"}

\* the serial numbers of the send_packet calls that have not yet reached line 127
SendsInProgress == {c.serial : c \in {d \in calls : d.op = "send_str"}}

\* the send task of the call with this serial number
TaskOf(serial) == CHOOSE id \in SendIds : tasks[id].serial = serial

\* the _run has started executing
Begun(id) == tasks[id].st \notin {"created", "ready"}

\* the session has ended after having been connected
Closed(id) == tasks[id].on_connected > 0 /\ tasks[id].st \in {"returned", "failed"}

\* a handle for the task is in the ready queue
Queued(id) == \E i \in 1..Len(ready) : ready[i].task = id

\* start() has been called once, and nothing else
OnlyStart ==
    /\ ncalls.start = 1
    /\ ncalls.stop = 0
    /\ ncalls.send = 0
    /\ calls = {}

\* C1: after init() and one start() that spawned the background thread, with no
\* further call, the connect task eventually begins executing.
C1_ConnectTaskBegins ==
    (host # None /\ thread # None /\ OnlyStart)
        ~> (~OnlyStart \/ \E id \in Sessions : Begun(id))

\* C2: in every session on_connected is invoked at most once, it has been
\* invoked exactly once whenever the connect has succeeded and the task has gone
\* on, it precedes every on_packet, and a session whose connect has not
\* succeeded has invoked neither.
C2_ConnectedOnceBeforePackets ==
    \A id \in Sessions :
        /\ tasks[id].on_connected <= 1
        /\ tasks[id].on_packet # <<>> => tasks[id].on_connected = 1
        /\ tasks[id].on_connected = 1 <=>
               \/ tasks[id].st \in {"connected", "returned"}
               \/ tasks[id].st = "failed"
                  /\ tasks[id].fault \in {"ValueError", "TransportError"}
        /\ tasks[id].conn # "open" =>
               tasks[id].on_packet = <<>> /\ tasks[id].on_connected = 0

C2_Witness ==
    \E id \in Sessions :
        tasks[id].on_connected = 1 /\ Len(tasks[id].on_packet) >= 1

\* C3: every send_packet call that found a handle enqueued exactly one write;
\* the writes on the wire are in the order of their enqueueing, each once; a
\* write that has run on an open handle is on the wire, one that has not run
\* yet is still in the ready queue, and no write runs before one enqueued
\* earlier.
C3_WritesInEnqueueOrder ==
    /\ \A s \in 1..ncalls.send :
           Cardinality({id \in SendIds : tasks[id].serial = s})
               = IF s \in SendsInProgress \cup raised THEN 0 ELSE 1
    /\ \A h \in Sessions :
           LET wire == tasks[h].wire
           IN  /\ \A i \in 1..Len(wire) :
                      LET id == TaskOf(wire[i].serial)
                      IN  /\ tasks[id].h = h
                          /\ tasks[id].st = "returned"
                          /\ tasks[id].text = wire[i].text
               /\ \A i, j \in 1..Len(wire) :
                      i < j => TaskOf(wire[i].serial) < TaskOf(wire[j].serial)
    /\ \A id \in SendIds :
           /\ tasks[id].st = "returned" =>
                  \E i \in 1..Len(tasks[tasks[id].h].wire) :
                      tasks[tasks[id].h].wire[i].serial = tasks[id].serial
           /\ tasks[id].st \in {"created", "ready"} => Queued(id)
           /\ tasks[id].st = "failed" => tasks[tasks[id].h].closed
    /\ \A i, j \in SendIds :
           i < j /\ tasks[j].st \in {"returned", "failed"}
               => tasks[i].st \in {"returned", "failed"}

\* two callers raced: the call that recorded its text second enqueued first,
\* and both writes are on the wire
C3_Witness ==
    \E h \in Sessions :
        /\ Len(tasks[h].wire) = 2
        /\ tasks[h].wire[1].serial > tasks[h].wire[2].serial

\* C4: at most one session is connecting or connected at any time.
C4_OneActiveSession ==
    Cardinality({id \in Sessions : tasks[id].st \in {"connecting", "connected"}}) <= 1

\* C5: every connect, decode or transport fault that ended a task has been
\* reported through on_error.
C5_FaultsReachOnError ==
    Cardinality({id \in TaskIds :
        tasks[id].fault \in {"ConnectError", "ValueError", "TransportError"}})
            <= callbacks.on_error

Decodes(msg) == msg.type = "text" /\ unpack_data(msg.data).ok
FailsDecode(msg) == msg.type = "text" /\ ~unpack_data(msg.data).ok

\* C6: a frame that fails to decode is the last message the session's receive
\* loop ever takes: the task has ended with the ValueError and is never resumed,
\* and on_packet has been invoked for the frames that decoded, and only them.
C6_DecodeFailureEndsLoop ==
    \A id \in Sessions :
        LET taken == tasks[id].consumed
            good == SelectSeq(taken, Decodes)
        IN  /\ \A i \in 1..Len(taken) :
                   FailsDecode(taken[i]) =>
                       /\ i = Len(taken)
                       /\ tasks[id].st = "failed"
                       /\ tasks[id].fault = "ValueError"
                       /\ ~tasks[id].parked
                       /\ ~Queued(id)
            /\ tasks[id].on_packet =
                   [i \in 1..Len(good) |-> unpack_data(good[i].data).val]

\* a frame has arrived after the failing one and the loop waits in select()
C6_Witness ==
    \E id \in Sessions :
        /\ tasks[id].fault = "ValueError"
        /\ tasks[id].inbox # <<>>
        /\ lphase = "select"

\* C7: on_disconnected has been invoked for every session that was connected
\* and has ended.
C7_DisconnectedOnClose ==
    Cardinality({id \in Sessions : Closed(id)}) <= callbacks.on_disconnected

\* C8: a send_packet call that finds no handle raises to its caller and
\* enqueues nothing: while there has been no handle every finished call has
\* raised and no write exists, and the text of a call that raised is never
\* enqueued or written afterwards.
C8_SendBeforeConnectRaises ==
    /\ _ws = None =>
           /\ SendIds = {}
           /\ raised = (1..ncalls.send) \ SendsInProgress
    /\ \A s \in raised :
           /\ \A id \in SendIds : tasks[id].serial # s
           /\ \A h \in Sessions : \A i \in 1..Len(tasks[h].wire) :
                  tasks[h].wire[i].serial # s

\* a call raised, the connection completed afterwards and a later call's text
\* was written
C8_Witness ==
    /\ raised # {}
    /\ \E h \in Sessions :
           /\ tasks[h].st = "connected"
           /\ tasks[h].wire # <<>>

\* C9: once stop() has asked the loop a background thread is driving to stop,
\* that thread eventually exits.
C9_ThreadExits ==
    \A t \in Threads : (stopping /\ driver = t) ~> ~is_alive(t)

\* C10: the close that stop() schedules for a connected session is eventually
\* executed: the handle is closed and the session has ended.
C10_CloseExecuted ==
    \A id \in 1..MaxInputs :
        (/\ id <= Len(tasks)
         /\ tasks[id].kind = "close"
         /\ tasks[tasks[id].h].st = "connected")
            ~> (/\ id <= Len(tasks)
                /\ tasks[id].kind = "close"
                /\ tasks[tasks[id].h].closed
                /\ tasks[tasks[id].h].st \in {"returned", "failed"})


\* C11: a coroutine handed to a loop that is not running is reported in that
\* very step, by an exception to whoever handed it over (the caller of
\* send_packet, or the thread inside run) or by a call of on_error.
C11_HaltedLoopReports ==
    [][(~is_running /\ Len(tasks') > Len(tasks))
       => \/ raised' # raised
          \/ callbacks'.on_error > callbacks.on_error
          \/ \E t \in Threads : tpc'[t] = "raised" /\ tpc[t] # "raised"]_vars

\* C12: a join() that waited returns only when the thread it waited for
\* (self.thread as join read it) is no longer alive, and a join() made while
\* no thread was ever spawned does not wait at all.
C12_JoinReturnsAfterThread ==
    [][/\ \A call \in calls \ calls' :
            call.op = "join" => ~is_alive(call.t) /\ tpc'[call.t] = tpc[call.t]
       /\ thread = None => \A call \in calls' : call.op # "join"]_vars

\* a join() is waiting for a thread that has just left run()
C12_Witness ==
    \E call \in calls :
        call.op = "join" /\ thread = Some(call.t) /\ tpc[call.t] \in {"done", "raised"}

\* C13: a start() made while the loop is running hands exactly one _run to
\* that loop and spawns no thread: self.thread and every thread are as before.
C13_StartOnRunningLoop ==
    [][(ncalls'.start > ncalls.start /\ is_running)
       => /\ thread' = thread
          /\ tpc' = tpc
          /\ tasks' = Append(tasks, RunCoro)
          /\ ready' = Append(ready, Spawn(Len(tasks) + 1))]_vars

\* start() was called on the running loop of the host program: a _run has been
\* handed over and no thread exists
C13_Witness ==
    /\ ncalls.start > 0
    /\ thread = None
    /\ \A t \in Threads : tpc[t] = "unborn"
    /\ Cardinality(Sessions) = ncalls.start

\* the first 1000 characters of a text
FirstChars(text) ==
    [i \in 1..(IF Len(text) < MaxRecord THEN Len(text) ELSE MaxRecord) |-> text[i]]

\* the text frames the receive loops have taken so far
TextsTaken(id) ==
    Len(SelectSeq(tasks[id].consumed, LAMBDA msg : msg.type = "text"))

RECURSIVE SumTaken(_)
SumTaken(ids) ==
    IF ids = {} THEN 0
    ELSE LET id == CHOOSE x \in ids : TRUE
         IN  TextsTaken(id) + SumTaken(ids \ {id})

\* C14: the last-sent slot is unset exactly while send_packet has recorded no
\* text and otherwise holds the first 1000 characters of the text recorded
\* last; the last-received slot likewise for the text frames the receive loop
\* has taken; neither slot ever holds more than 1000 characters.
C14_DiagnosticsSlots ==
    /\ Len(recorded.sent) = ncalls.send
    /\ Len(recorded.received) = SumTaken(Sessions)
    /\ (_last_sent_text = None) <=> (ncalls.send = 0)
    /\ (_last_received_text = None) <=> (SumTaken(Sessions) = 0)
    /\ ncalls.send > 0 =>
          /\ _last_sent_text = Some(FirstChars(recorded.sent[Len(recorded.sent)]))
          /\ Len(_last_sent_text[1]) <= MaxRecord
    /\ SumTaken(Sessions) > 0 =>
          /\ _last_received_text =
                 Some(FirstChars(recorded.received[Len(recorded.received)]))
          /\ Len(_last_received_text[1]) <= MaxRecord

\* both slots hold the cut of a text longer than 1000 characters
C14_Witness ==
    /\ recorded.sent # <<>> /\ recorded.received # <<>>
    /\ Len(recorded.sent[Len(recorded.sent)]) > MaxRecord
    /\ Len(recorded.received[Len(recorded.received)]) > MaxRecord
    /\ _last_sent_text # None /\ Len(_last_sent_text[1]) = MaxRecord
    /\ _last_received_text # None /\ Len(_last_received_text[1]) = MaxRecord

\* C15: the slots are written before the traffic is acted on.  The step in
\* which _run decodes a text frame, with on_packet called or the decoding
\* failed, leaves the last-received slot holding that frame's text cut to 1000
\* characters.  A call of send_packet goes on to its write only from the step
\* that put its text, cut to 1000 characters, in the last-sent slot: a write is
\* handed to the loop, or fails for lack of a handle, only out of such a call.
C15_RecordedBeforeActedOn ==
    [][/\ \A id \in Sessions :
            (\/ tasks'[id].on_packet # tasks[id].on_packet
             \/ tasks'[id].fault = "ValueError" /\ tasks[id].fault = NoFault)
            => LET taken == tasks'[id].consumed
               IN  /\ Len(taken) = Len(tasks[id].consumed) + 1
                   /\ taken[Len(taken)].type = "text"
                   /\ _last_received_text' = Some(FirstChars(taken[Len(taken)].data))
       /\ \A call \in calls' \ calls :
            call.op = "send_str" => _last_sent_text' = Some(FirstChars(call.text))
       /\ (Len(tasks') > Len(tasks) /\ tasks'[Len(tasks')].kind = "send")
            => \E call \in calls \ calls' :
                  /\ call.op = "send_str"
                  /\ call.text = tasks'[Len(tasks')].text
                  /\ call.serial = tasks'[Len(tasks')].serial
       /\ raised' # raised
            => \E call \in calls \ calls' :
                  call.op = "send_str" /\ raised' = raised \cup {call.serial}]_vars

\* a frame that failed to decode is in the last-received slot, and a write has
\* been handed to the loop
C15_Witness ==
    /\ \E id \in Sessions :
          /\ tasks[id].fault = "ValueError"
          /\ _last_received_text = Some(FirstChars(NotJson))
    /\ SendIds # {}
    /\ _last_sent_text # None

\* C16: self._ws is assigned only by a _run in a step the loop runs, and a
\* socket is written to or closed only in a callback the loop runs, never in a
\* step of a caller of send_packet() or stop().
C16_SocketWorkOnLoop ==
    [][/\ _ws' # _ws
            => \E id \in Sessions :
                  /\ running("step", id)
                  /\ _ws' = Some(id)
                  /\ batch' = batch - 1
       /\ \A h \in Sessions :
            (\/ tasks'[h].wire # tasks[h].wire
             \/ tasks'[h].closed # tasks[h].closed)
            => /\ \E id \in TaskIds :
                     /\ running("step", id)
                     /\ id = h \/ (tasks[id].kind \in {"send", "close"} /\ tasks[id].h = h)
               /\ batch' = batch - 1
               /\ calls' = calls
               /\ ncalls' = ncalls]_vars

\* a write and a close asked for by callers have both been carried out
C16_Witness ==
    \E h \in Sessions :
        /\ _ws = Some(h)
        /\ tasks[h].wire # <<>>
        /\ \E id \in TaskIds :
              tasks[id].kind = "close" /\ tasks[id].h = h /\ tasks[id].st = "returned"

\* the sessions that have begun executing
NumBegun == Cardinality({id \in Sessions : Begun(id)})

\* the calls of the shortest restart: start(), stop(), start()
RestartCalls == [start |-> 2, stop |-> 1, send |-> 0, frames |-> 0]

\* nothing goes on unless a caller or the peer acts: no call is in progress, no
\* thread can take a step in run() and the loop can take no step
AtRest == ~ENABLED (CallerGoesOn \/ ThreadStep \/ LoopStep)

\* the one session there was has ended, stop() has halted the loop that ran it
\* and the second start(), finding the loop not running, has spawned the thread
\* that is now inside run_forever
FreshStart ==
    /\ ncalls = RestartCalls
    /\ Cardinality(Sessions) = 1
    /\ \E id \in Sessions : Closed(id)
    /\ thread = Some(2)
    /\ tpc[2] = "driving"

\* C17: after a session has ended and stop() has halted the loop, a fresh
\* start() creates a new session: when the client has come to rest after that
\* start(), with no further call, a second session has begun executing.
C17_FreshStartNewSession ==
    (FreshStart /\ AtRest) => NumBegun > 1

\* C18: after init() without a proxy (empty host or zero port), a connect task
\* that has begun executing has attempted the connection: it is connecting,
\* connected, or was refused by the peer.
C18_ConnectsWithoutProxy ==
    (host # None /\ proxy = Unset)
        => \A id \in Sessions : Begun(id) => tasks[id].conn # "none"

\* C19: a stop() that finds no socket handle raises nothing and hands nothing
\* to the loop: its first step changes nothing but the call's own progress, and
\* its second step, loop.stop(), sets the stopping flag if the loop is running
\* and changes nothing else.
C19_StopWithoutHandle ==
    [][/\ (ncalls'.stop > ncalls.stop /\ _ws = None)
            => /\ \E call \in calls' \ calls : call.op = "stop_loop"
               /\ UNCHANGED <<client, raised, tpc, loopv, tasks, callbacks, recorded>>
       /\ \A call \in calls \ calls' :
            call.op = "stop_loop"
            => /\ stopping' = (is_running \/ stopping)
               /\ UNCHANGED <<client, ncalls, raised, tpc, lphase, driver, ready,
                              batch, wake, tasks, callbacks, recorded>>]_vars

\* stop() has run to its end on a running loop without a socket handle: the
\* loop is asked to halt and no close was handed over
C19_Witness ==
    /\ ncalls.stop > 0
    /\ calls = {}
    /\ _ws = None
    /\ stopping
    /\ \A id \in TaskIds : tasks[id].kind # "close"

\* the write handed to the loop last
LastEnqueued == CHOOSE id \in SendIds : \A other \in SendIds : other <= id

\* C20: once every send_packet call made on the connected client has returned,
\* each having handed its write to the loop, the last-sent slot holds the text,
\* cut to 1000 characters, of the write handed over last.
C20_LastSentIsLastEnqueued ==
    (/\ ncalls.send > 0
     /\ SendsInProgress = {}
     /\ Cardinality(SendIds) = ncalls.send)
        => _last_sent_text = Some(FirstChars(tasks[LastEnqueued].text))

====
